---- MODULE Spec2Model ----
(***************************************************************************)
(* Model of hermes.nappy.tools.Content: a record of source metadata and a  *)
(* sentiment mapping, filled in by analyse / classify through a Natural    *)
(* Language client, and serialised by jsonify.                             *)
(*                                                                         *)
(* Python values are tagged records: the field "kind" is the Python type,  *)
(* a str carries its code points, a bytes its octets, a dict its mapping.  *)
(* Scores, magnitudes and confidences are floats, held in tenths.          *)
(***************************************************************************)
EXTENDS Integers, Sequences, FiniteSets, TLC

VARIABLES _source, _sentiment, last

vars == <<_source, _sentiment, last>>

\* ------------------------------------------------------------------ bounds
MaxSentences == 2
MaxCategories == 2

\* ----------------------------------------------------------- Python values
NoneV == [kind |-> "NoneType"]
Str(cs) == [kind |-> "str", chars |-> cs]
Bytes(bs) == [kind |-> "bytes", octets |-> bs]
PyInt(i) == [kind |-> "int", n |-> i]
Float(t) == [kind |-> "float", tenths |-> t]
List(xs) == [kind |-> "list", items |-> xs]
Dict(m) == [kind |-> "dict", map |-> m]

EmptyMap == [k \in {} |-> NoneV]

\* d[k] = v on a dict d
SetItem(d, k, v) ==
  Dict([y \in (DOMAIN d.map) \cup {k} |-> IF y = k THEN v ELSE d.map[y]])

\* k in d
HasKey(d, k) == k \in DOMAIN d.map

\* isinstance(v, str), isinstance(v, binary_type), isinstance(v, dict)
IsStr(v) == v.kind = "str"
IsBinary(v) == v.kind = "bytes"
IsDict(v) == v.kind = "dict"

\* The sequences over S of length at most n in which no two neighbours are
\* the same element
SeqsUpTo(S, n) ==
  {q \in UNION {[1..m -> S] : m \in 0..n} : \A i \in 1..(Len(q) - 1) : q[i] # q[i + 1]}

\* ------------------------------------------------------------------ UTF-8
IsCont(b) == b >= 128 /\ b <= 191

\* number of octets the lead octet announces (0: not a lead octet)
Utf8Width(b) ==
  IF b < 128 THEN 1
  ELSE IF b >= 194 /\ b <= 223 THEN 2
  ELSE IF b >= 224 /\ b <= 239 THEN 3
  ELSE IF b >= 240 /\ b <= 244 THEN 4
  ELSE 0

\* the first character of bs is well-formed and w octets wide
Utf8WellFormed(bs, w) ==
  /\ w > 0
  /\ Len(bs) >= w
  /\ \A i \in 2..w : IsCont(bs[i])
  /\ (bs[1] = 224 => bs[2] >= 160)
  /\ (bs[1] = 237 => bs[2] <= 159)
  /\ (bs[1] = 240 => bs[2] >= 144)
  /\ (bs[1] = 244 => bs[2] <= 143)

Utf8CodePoint(bs, w) ==
  IF w = 1 THEN bs[1]
  ELSE IF w = 2 THEN (bs[1] - 192) * 64 + (bs[2] - 128)
  ELSE IF w = 3 THEN (bs[1] - 224) * 4096 + (bs[2] - 128) * 64 + (bs[3] - 128)
  ELSE (bs[1] - 240) * 262144 + (bs[2] - 128) * 4096 + (bs[3] - 128) * 64 + (bs[4] - 128)

\* bytes.decode('utf-8'): ok is FALSE where Python raises UnicodeDecodeError
RECURSIVE Utf8Decode(_)
Utf8Decode(bs) ==
  IF bs = <<>> THEN [ok |-> TRUE, chars |-> <<>>]
  ELSE LET w == Utf8Width(bs[1])
       IN IF ~Utf8WellFormed(bs, w) THEN [ok |-> FALSE, chars |-> <<>>]
          ELSE LET rest == Utf8Decode(SubSeq(bs, w + 1, Len(bs)))
               IN IF ~rest.ok THEN rest
                  ELSE [ok |-> TRUE, chars |-> <<Utf8CodePoint(bs, w)>> \o rest.chars]

\* the octets of one code point
Utf8Octets(c) ==
  IF c < 128 THEN <<c>>
  ELSE IF c < 2048 THEN <<192 + (c \div 64), 128 + (c % 64)>>
  ELSE IF c < 65536 THEN <<224 + (c \div 4096), 128 + ((c \div 64) % 64), 128 + (c % 64)>>
  ELSE <<240 + (c \div 262144), 128 + ((c \div 4096) % 64), 128 + ((c \div 64) % 64), 128 + (c % 64)>>

\* str.encode("utf-8"): ok is FALSE where Python raises UnicodeEncodeError
RECURSIVE Utf8Encode(_)
Utf8Encode(cs) ==
  IF cs = <<>> THEN [ok |-> TRUE, octets |-> <<>>]
  ELSE IF cs[1] >= 55296 /\ cs[1] <= 57343 THEN [ok |-> FALSE, octets |-> <<>>]
  ELSE LET rest == Utf8Encode(Tail(cs))
       IN IF ~rest.ok THEN rest
          ELSE [ok |-> TRUE, octets |-> Utf8Octets(cs[1]) \o rest.octets]

\* ------------------------------------------------------------- str(date)
\* the w decimal digits of i, as characters
RECURSIVE Digits(_, _)
Digits(i, w) == IF w = 0 THEN <<>> ELSE Digits(i \div 10, w - 1) \o <<48 + (i % 10)>>

\* str(date) of a naive datetime: "YYYY-MM-DD HH:MM:SS", then ".ffffff" when
\* the microsecond is not zero
DateStr(d) ==
  Digits(d.year, 4) \o <<45>> \o Digits(d.month, 2) \o <<45>> \o Digits(d.day, 2)
    \o <<32>> \o Digits(d.hour, 2) \o <<58>> \o Digits(d.minute, 2) \o <<58>>
    \o Digits(d.second, 2)
    \o (IF d.microsecond = 0 THEN <<>> ELSE <<46>> \o Digits(d.microsecond, 6))

\* --------------------------------------------------------------- Content
\* a source setter without its type check
SourceSetterUnchecked(st, data) == [err |-> "none", st |-> [st EXCEPT !.source = data]]

\* the source setter: the instance [source, sentiment] after `source = data`
SourceSetter(st, data) ==
  IF ~IsDict(data) THEN [err |-> "TypeError", st |-> st]
  ELSE [err |-> "none", st |-> [st EXCEPT !.source = data]]

\* the sentiment setter
SentimentSetter(st, data) ==
  IF ~IsDict(data) THEN [err |-> "TypeError", st |-> st]
  ELSE [err |-> "none", st |-> [st EXCEPT !.sentiment = data]]

\* a normalisation that wraps whatever it is given, lists too
AsListAlways(x) == List(<<x>>)

\* [x] if isinstance(x, str) else x
AsList(x) == IF IsStr(x) THEN List(<<x>>) ELSE x

\* a body kept as it is given
DecodeBodyNever(body) == [ok |-> TRUE, value |-> body]

\* body.decode('utf-8') if isinstance(body, binary_type) else body
DecodeBody(body) ==
  IF IsBinary(body)
  THEN LET dec == Utf8Decode(body.octets)
       IN [ok |-> dec.ok, value |-> IF dec.ok THEN Str(dec.chars) ELSE NoneV]
  ELSE [ok |-> TRUE, value |-> body]

\* Content(title=..., author=..., date=..., url=..., body=..., origin=...,
\* tags=..., misc=...): both hidden attributes start as None, then the two
\* setters run
New(a) ==
  LET blank == [source |-> NoneV, sentiment |-> NoneV]
      dec == DecodeBody(a.body)
  IN IF ~dec.ok THEN [err |-> "UnicodeDecodeError", st |-> blank]
     ELSE LET data == Dict([title |-> a.title,
                            author |-> AsList(a.author),
                            date |-> Str(DateStr(a.date)),
                            url |-> a.url,
                            body |-> dec.value,
                            origin |-> a.origin,
                            tags |-> AsList(a.tags),
                            misc |-> AsList(a.misc)])
              s1 == SourceSetter(blank, data)
          IN IF s1.err # "none" THEN s1
             ELSE SentimentSetter(s1.st, Dict(EmptyMap))

\* lang.types.Document(content=..., type=PLAIN_TEXT)
Document(content) == [content |-> content, type |-> "PLAIN_TEXT"]

\* one call of the client, as the client sees and answers it
Call(method, document, reply) == [method |-> method, document |-> document, reply |-> reply]

\* d[k].append(v), for a list d[k]
AppendItem(d, k, v) == SetItem(d, k, List(Append(d.map[k].items, v)))

\* for s in annotations.sentences: self.sentiment['content'].append({...})
RECURSIVE AppendSentences(_, _)
AppendSentences(senti, ss) ==
  IF ss = <<>> THEN senti
  ELSE AppendSentences(
         AppendItem(senti, "content",
                    Dict([text |-> Str(ss[1].text.content),
                          score |-> Float(ss[1].sentiment.score),
                          magnitude |-> Float(ss[1].sentiment.magnitude)])),
         Tail(ss))

\* writes of analyse that append to the content already there
StoreAnnotationsKeeping(senti, r) ==
  LET overall == Dict([score |-> Float(r.document_sentiment.score),
                       magnitude |-> Float(r.document_sentiment.magnitude)])
      s1 == SetItem(senti, "overall", overall)
      s2 == IF HasKey(s1, "content") THEN s1 ELSE SetItem(s1, "content", List(<<>>))
  IN AppendSentences(s2, r.sentences)

\* writes of analyse that update the overall already there instead of
\* replacing it
StoreAnnotationsUpdating(senti, r) ==
  LET old == IF HasKey(senti, "overall") /\ IsDict(senti.map["overall"])
             THEN senti.map["overall"] ELSE Dict(EmptyMap)
      overall == SetItem(SetItem(old, "score", Float(r.document_sentiment.score)),
                         "magnitude", Float(r.document_sentiment.magnitude))
      s1 == SetItem(senti, "overall", overall)
      s2 == SetItem(s1, "content", List(<<>>))
  IN AppendSentences(s2, r.sentences)

\* the writes of analyse: overall is replaced, content is rebuilt
StoreAnnotations(senti, r) ==
  LET overall == Dict([score |-> Float(r.document_sentiment.score),
                       magnitude |-> Float(r.document_sentiment.magnitude)])
      s1 == SetItem(senti, "overall", overall)
      s2 == SetItem(s1, "content", List(<<>>))
  IN AppendSentences(s2, r.sentences)

\* an analyse that clears content before it calls the client
AnalyseEager(st, r) ==
  IF ~HasKey(st.source, "body") THEN [err |-> "KeyError", st |-> st, calls |-> <<>>]
  ELSE LET document == Document(st.source.map["body"])
           calls == <<Call("analyze_sentiment", document, r)>>
           cleared == [st EXCEPT !.sentiment = SetItem(st.sentiment, "content", List(<<>>))]
       IN IF r.raises THEN [err |-> "ClientError", st |-> cleared, calls |-> calls]
          ELSE [err |-> "none",
                st |-> [st EXCEPT !.sentiment = StoreAnnotations(st.sentiment, r)],
                calls |-> calls]

\* analyse(client), the client answering r to analyze_sentiment
Analyse(st, r) ==
  IF ~HasKey(st.source, "body") THEN [err |-> "KeyError", st |-> st, calls |-> <<>>]
  ELSE LET document == Document(st.source.map["body"])
           calls == <<Call("analyze_sentiment", document, r)>>
       IN IF r.raises THEN [err |-> "ClientError", st |-> st, calls |-> calls]
          ELSE [err |-> "none",
                st |-> [st EXCEPT !.sentiment = StoreAnnotations(st.sentiment, r)],
                calls |-> calls]

\* for cat in categories: self.sentiment['overall']['categories'].append({...})
RECURSIVE AppendCategories(_, _)
AppendCategories(overall, cs) ==
  IF cs = <<>> THEN overall
  ELSE AppendCategories(
         AppendItem(overall, "categories",
                    Dict([category |-> Str(cs[1].name),
                          confidence |-> Float(cs[1].confidence)])),
         Tail(cs))

\* the entry classify stores when no category was found
NoCategory == Dict([category |-> Str(<<>>), confidence |-> PyInt(1)])

\* no entry stored when no category was found
FillEmptyNever(overall) == overall

\* if len(self.sentiment['overall']['categories']) == 0: append the sentinel
FillEmpty(overall) ==
  IF Len(overall.map["categories"].items) = 0
  THEN AppendItem(overall, "categories", NoCategory)
  ELSE overall

\* writes of classify that create overall when it is missing
StoreCategoriesLenient(senti, cats) ==
  LET overall == IF HasKey(senti, "overall") THEN senti.map["overall"] ELSE Dict(EmptyMap)
  IN IF ~IsDict(overall) THEN [err |-> "TypeError", sentiment |-> senti]
     ELSE LET o1 == SetItem(overall, "categories", List(<<>>))
              o2 == AppendCategories(o1, cats)
              o3 == FillEmpty(o2)
          IN [err |-> "none", sentiment |-> SetItem(senti, "overall", o3)]

\* the writes of classify: categories is rebuilt under overall, which has
\* to be there and to take an item
StoreCategories(senti, cats) ==
  IF ~HasKey(senti, "overall") THEN [err |-> "KeyError", sentiment |-> senti]
  ELSE IF ~IsDict(senti.map["overall"]) THEN [err |-> "TypeError", sentiment |-> senti]
  ELSE LET o1 == SetItem(senti.map["overall"], "categories", List(<<>>))
           o2 == AppendCategories(o1, cats)
           o3 == FillEmpty(o2)
       IN [err |-> "none", sentiment |-> SetItem(senti, "overall", o3)]

\* classify(client), the client answering r to classify_text
Classify(st, r) ==
  IF ~HasKey(st.source, "body") THEN [err |-> "KeyError", st |-> st, calls |-> <<>>]
  ELSE IF ~IsStr(st.source.map["body"])
  THEN [err |-> "AttributeError", st |-> st, calls |-> <<>>]
  ELSE LET enc == Utf8Encode(st.source.map["body"].chars)
       IN IF ~enc.ok THEN [err |-> "UnicodeEncodeError", st |-> st, calls |-> <<>>]
          ELSE LET document == Document(Bytes(enc.octets))
                   calls == <<Call("classify_text", document, r)>>
               IN IF r.raises THEN [err |-> "ClientError", st |-> st, calls |-> calls]
                  ELSE LET stored == StoreCategories(st.sentiment, r.categories)
                       IN [err |-> stored.err,
                           st |-> [st EXCEPT !.sentiment = stored.sentiment],
                           calls |-> calls]

\* {"source": self.source, "sentiment": self.sentiment}
Serialised(st) == Dict([source |-> st.source, sentiment |-> st.sentiment])

\* a jsonify that classifies before it analyses
JsonifyClassifyFirst(st, automagic, ra, rc) ==
  IF automagic
  THEN LET c == Classify(st, rc)
       IN IF c.err # "none" THEN [err |-> c.err, st |-> c.st, calls |-> c.calls, ret |-> NoneV]
          ELSE LET a == Analyse(c.st, ra)
               IN [err |-> a.err, st |-> a.st, calls |-> c.calls \o a.calls,
                   ret |-> IF a.err = "none" THEN Serialised(a.st) ELSE NoneV]
  ELSE [err |-> "none", st |-> st, calls |-> <<>>, ret |-> Serialised(st)]

\* a jsonify that analyses and classifies whatever automagic is
JsonifyAlways(st, automagic, ra, rc) ==
  LET a == Analyse(st, ra)
  IN IF a.err # "none" THEN [err |-> a.err, st |-> a.st, calls |-> a.calls, ret |-> NoneV]
     ELSE LET c == Classify(a.st, rc)
          IN [err |-> c.err, st |-> c.st, calls |-> a.calls \o c.calls,
              ret |-> IF c.err = "none" THEN Serialised(c.st) ELSE NoneV]

\* jsonify(client, automagic), the client answering ra to analyze_sentiment
\* and rc to classify_text
Jsonify(st, automagic, ra, rc) ==
  IF automagic
  THEN LET a == Analyse(st, ra)
       IN IF a.err # "none" THEN [err |-> a.err, st |-> a.st, calls |-> a.calls, ret |-> NoneV]
          ELSE LET c == Classify(a.st, rc)
               IN [err |-> c.err, st |-> c.st, calls |-> a.calls \o c.calls,
                   ret |-> IF c.err = "none" THEN Serialised(c.st) ELSE NoneV]
  ELSE [err |-> "none", st |-> st, calls |-> <<>>, ret |-> Serialised(st)]

\* the accessors
source == _source
sentiment == _sentiment

\* the instance as a whole
Self == [source |-> _source, sentiment |-> _sentiment]

\* ----------------------------------------------------------------- inputs
\* naive datetimes, the second with a microsecond part
DateInputs ==
  {[year |-> 2019, month |-> 3, day |-> 7, hour |-> 9, minute |-> 5, second |-> 0,
    microsecond |-> 0],
   [year |-> 2020, month |-> 12, day |-> 31, hour |-> 23, minute |-> 59, second |-> 58,
    microsecond |-> 1500]}

\* the metadata of two contents: one with single text values, one with a
\* list of two authors, an empty list of tags and no misc
MetaInputs ==
  {[title |-> Str(<<84>>), author |-> Str(<<65>>), url |-> Str(<<117>>),
    origin |-> Str(<<111>>), tags |-> Str(<<35, 116>>), misc |-> Str(<<109>>),
    date |-> CHOOSE d \in DateInputs : d.microsecond = 0],
   [title |-> Str(<<84>>), author |-> List(<<Str(<<65>>), Str(<<66>>)>>), url |-> Str(<<117>>),
    origin |-> Str(<<111>>), tags |-> List(<<>>), misc |-> NoneV,
    date |-> CHOOSE d \in DateInputs : d.microsecond # 0]}

\* bodies: "Hé€" as text and as UTF-8, and two byte strings that are not
\* UTF-8: a truncated character and a stray continuation octet
BodyInputs ==
  {Str(<<72, 233, 8364>>),
   Bytes(<<72, 195, 169, 226, 130, 172>>),
   Bytes(<<72, 226, 130>>), Bytes(<<172, 72>>)}

ArgInputs ==
  {[title |-> m.title, author |-> m.author, date |-> m.date, url |-> m.url, body |-> b,
    origin |-> m.origin, tags |-> m.tags, misc |-> m.misc] : m \in MetaInputs, b \in BodyInputs}

\* values assigned to source: two that are no mapping, a mapping without
\* body, one with a byte body, one with a text body and a single-text author
SourceInputs ==
  {NoneV, Str(<<72>>),
   Dict(EmptyMap),
   Dict([body |-> Bytes(<<72>>)]),
   Dict([body |-> Str(<<72>>), author |-> Str(<<65>>)])}

\* values assigned to sentiment: one that is no mapping, the empty mapping,
\* one whose overall is an empty mapping, one whose overall is no mapping
SentimentInputs ==
  {List(<<>>),
   Dict(EmptyMap),
   Dict([overall |-> Dict(EmptyMap)]),
   Dict([overall |-> List(<<>>)])}

\* what the client answers: it raises, or it returns a result
Raises == [raises |-> TRUE]

DocumentSentiments == {[score |-> 5, magnitude |-> 8], [score |-> -2, magnitude |-> 3]}

SentenceInputs ==
  {[text |-> [content |-> <<71>>], sentiment |-> [score |-> 9, magnitude |-> 9]],
   [text |-> [content |-> <<66>>], sentiment |-> [score |-> -8, magnitude |-> 8]]}

AnalysisReplies ==
  {Raises} \cup
  {[raises |-> FALSE, document_sentiment |-> d, sentences |-> ss] :
     d \in DocumentSentiments, ss \in SeqsUpTo(SentenceInputs, MaxSentences)}

CategoryInputs ==
  {[name |-> <<47, 65>>, confidence |-> 9], [name |-> <<47, 66>>, confidence |-> 5]}

ClassificationReplies ==
  {Raises} \cup
  {[raises |-> FALSE, categories |-> cs] : cs \in SeqsUpTo(CategoryInputs, MaxCategories)}

\* ------------------------------------------------------------ the machine
\* the instance exists: its construction did not raise
Constructed == ~(last.op = "__init__" /\ last.err # "none")

\* the keys sentiment['overall'] has, when it is there and is a mapping
OverallKeys(senti) ==
  IF IsDict(senti) /\ HasKey(senti, "overall") /\ IsDict(senti.map["overall"])
  THEN DOMAIN senti.map["overall"].map
  ELSE {}

Done(op, data, automagic, res, ret) ==
  /\ _source' = res.st.source
  /\ _sentiment' = res.st.sentiment
  /\ last' = [op |-> op, args |-> NoneV, data |-> data, automagic |-> automagic,
              err |-> res.err, calls |-> res.calls, ret |-> ret,
              had |-> OverallKeys(_sentiment)]

Init ==
  \E a \in ArgInputs :
    LET res == New(a)
    IN /\ _source = res.st.source
       /\ _sentiment = res.st.sentiment
       /\ last = [op |-> "__init__", args |-> a, data |-> NoneV, automagic |-> FALSE,
                  err |-> res.err, calls |-> <<>>, ret |-> NoneV, had |-> {}]

SetSource ==
  /\ Constructed
  /\ \E data \in SourceInputs :
       LET res == SourceSetter(Self, data)
       IN Done("source", data, FALSE, res @@ [calls |-> <<>>], NoneV)

SetSentiment ==
  /\ Constructed
  /\ \E data \in SentimentInputs :
       LET res == SentimentSetter(Self, data)
       IN Done("sentiment", data, FALSE, res @@ [calls |-> <<>>], NoneV)

DoAnalyse ==
  /\ Constructed
  /\ \E r \in AnalysisReplies : Done("analyse", NoneV, FALSE, Analyse(Self, r), NoneV)

DoClassify ==
  /\ Constructed
  /\ \E r \in ClassificationReplies : Done("classify", NoneV, FALSE, Classify(Self, r), NoneV)

DoJsonify ==
  /\ Constructed
  /\ \/ LET res == Jsonify(Self, FALSE, Raises, Raises)
        IN Done("jsonify", NoneV, FALSE, res, res.ret)
     \/ \E ra \in AnalysisReplies, rc \in ClassificationReplies :
          LET res == Jsonify(Self, TRUE, ra, rc)
          IN Done("jsonify", NoneV, TRUE, res, res.ret)

Next == SetSource \/ SetSentiment \/ DoAnalyse \/ DoClassify \/ DoJsonify

Spec == Init /\ [][Next]_vars

\* ------------------------------------------------------------ properties
\* the client was called in the last operation and its last call returned
Answered(l) == Len(l.calls) >= 1 /\ ~l.calls[Len(l.calls)].reply.raises

\* the client was called in the last operation and its last call raised
Raised(l) == Len(l.calls) >= 1 /\ l.calls[Len(l.calls)].reply.raises

\* the entry classify stores for a category of the reply
CategoryEntry(c) == Dict([category |-> Str(c.name), confidence |-> Float(c.confidence)])

\* the entry analyse stores for a sentence of the reply
SentenceEntry(x) ==
  Dict([text |-> Str(x.text.content), score |-> Float(x.sentiment.score),
        magnitude |-> Float(x.sentiment.magnitude)])

\* C1: a classify on an instance whose sentiment has no 'overall' key, the
\* client having answered, fails with a KeyError, whatever the answer.
C1_ClassifyNeedsOverall ==
  [][(last'.op = "classify" /\ ~HasKey(_sentiment, "overall") /\ Answered(last'))
       => last'.err = "KeyError"]_vars

\* a classify on an empty sentiment, to which the client returned two
\* categories, failed with a KeyError
C1_Witness ==
  /\ last.op = "classify"
  /\ last.err = "KeyError"
  /\ Answered(last)
  /\ Len(last.calls[1].reply.categories) = 2
  /\ _sentiment = Dict(EmptyMap)

\* C2: after a classify that returned normally, overall.categories is not
\* empty: it holds the entries of the returned categories, in their order,
\* and it holds the one entry {category: "", confidence: 1} when none was
\* returned.
C2_CategoriesNeverEmpty ==
  (last.op = "classify" /\ last.err = "none") =>
    LET cats == last.calls[1].reply.categories
        stored == _sentiment.map["overall"].map["categories"].items
    IN /\ Len(stored) > 0
       /\ cats # <<>> => stored = [i \in 1..Len(cats) |-> CategoryEntry(cats[i])]
       /\ cats = <<>> => stored = <<Dict([category |-> Str(<<>>), confidence |-> PyInt(1)])>>

\* a classify to which the client returned no category, on an instance that
\* had categories, left the one sentinel entry
C2_Witness ==
  /\ last.op = "classify"
  /\ last.err = "none"
  /\ last.calls[1].reply.categories = <<>>
  /\ "categories" \in last.had
  /\ Len(_sentiment.map["overall"].map["categories"].items) = 1

\* analyse(client), classify(client) and the reading of {source, sentiment},
\* one after the other as a caller writes them
ByHand(st, ra, rc) ==
  LET a == Analyse(st, ra)
  IN IF a.err # "none" THEN [err |-> a.err, st |-> a.st, calls |-> a.calls, ret |-> NoneV]
     ELSE LET c == Classify(a.st, rc)
          IN IF c.err # "none"
             THEN [err |-> c.err, st |-> c.st, calls |-> a.calls \o c.calls, ret |-> NoneV]
             ELSE [err |-> "none", st |-> c.st, calls |-> a.calls \o c.calls,
                   ret |-> Dict([source |-> c.st.source, sentiment |-> c.st.sentiment])]

\* C3: on a freshly constructed instance jsonify(client, automagic=True)
\* calls the client, returns (or raises) and leaves the instance as analyse,
\* classify and the reading of {source, sentiment} do, and it does not fail
\* with a KeyError.
C3_AutomagicIsAnalyseThenClassify ==
  [][(last.op = "__init__" /\ last'.op = "jsonify" /\ last'.automagic) =>
       /\ last'.err # "KeyError"
       /\ \E ra \in AnalysisReplies, rc \in ClassificationReplies :
            LET m == ByHand(Self, ra, rc)
            IN /\ last'.calls = m.calls
               /\ last'.err = m.err
               /\ last'.ret = m.ret
               /\ _source' = m.st.source
               /\ _sentiment' = m.st.sentiment]_vars

\* a jsonify with automagic returned the analysed and classified instance
C3_Witness ==
  /\ last.op = "jsonify"
  /\ last.automagic
  /\ last.err = "none"
  /\ last.had = {}
  /\ Len(last.calls) = 2
  /\ last.ret = Dict([source |-> _source, sentiment |-> _sentiment])
  /\ OverallKeys(_sentiment) = {"score", "magnitude", "categories"}

\* C4: jsonify without automagic calls no client, changes neither source
\* nor sentiment, and returns {source, sentiment} as they are.
C4_PlainJsonifyReadsOnly ==
  [][(last'.op = "jsonify" /\ ~last'.automagic) =>
       /\ last'.calls = <<>>
       /\ last'.err = "none"
       /\ _source' = _source
       /\ _sentiment' = _sentiment
       /\ last'.ret = Dict([source |-> _source, sentiment |-> _sentiment])]_vars

\* a jsonify without automagic returned an analysed instance
C4_Witness ==
  /\ last.op = "jsonify"
  /\ ~last.automagic
  /\ last.calls = <<>>
  /\ HasKey(_sentiment, "content")
  /\ last.ret = Dict([source |-> _source, sentiment |-> _sentiment])

\* C5: assigning a value that is no mapping to source or sentiment fails
\* with a TypeError, assigning a mapping succeeds and the accessor returns
\* it; source and sentiment are mappings in every state of an instance.
C5_MappingsOnly ==
  Constructed =>
    /\ IsDict(source)
    /\ IsDict(sentiment)
    /\ last.op \in {"source", "sentiment"} =>
         IF IsDict(last.data)
         THEN last.err = "none" /\ (IF last.op = "source" THEN source ELSE sentiment) = last.data
         ELSE last.err = "TypeError"

\* an assignment of a value that is no mapping to source of an analysed
\* instance failed
C5_Witness ==
  /\ last.op = "source"
  /\ ~IsDict(last.data)
  /\ last.err = "TypeError"
  /\ IsDict(source)
  /\ HasKey(sentiment, "overall")

\* source has a body and it is text
BodyIsText == HasKey(_source, "body") /\ IsStr(_source.map["body"])

\* C6, as stated: in every state of an instance, source.body is
\* text.
C6_BodyAlwaysText == Constructed => (HasKey(_source, "body") => IsStr(_source.map["body"]))

\* C6, amended: construction stores a text body as given and a byte body as
\* the text it is the UTF-8 encoding of, and the body stays text through
\* sentiment assignments, analyse, classify and jsonify; a source assignment
\* stores the mapping it is given, whatever its body.
C6_BodyTextUntilReassigned ==
  /\ Constructed =>
       /\ BodyIsText
       /\ IF IsBinary(last.args.body)
          THEN Utf8Encode(_source.map["body"].chars) = [ok |-> TRUE, octets |-> last.args.body.octets]
          ELSE _source.map["body"] = last.args.body
  /\ [][IF last'.op = "source" /\ last'.err = "none"
        THEN _source' = last'.data
        ELSE BodyIsText => BodyIsText']_vars

\* an instance was constructed with a byte body, now stored as text
C6_Witness ==
  /\ last.op = "__init__"
  /\ last.err = "none"
  /\ IsBinary(last.args.body)
  /\ _source.map["body"] = Str(<<72, 233, 8364>>)

ListFields == {"author", "tags", "misc"}

\* C7, as stated: author, tags and misc are stored as sequences in
\* every state of an instance.
C7_AlwaysSequences ==
  Constructed => \A f \in ListFields : HasKey(_source, f) /\ _source.map[f].kind = "list"

\* C7, amended: construction stores a text given for author, tags or misc as
\* the one-element sequence holding it, and any other value as it is; the
\* stored fields stay until source is assigned.
C7_TextBecomesSequence ==
  /\ Constructed =>
       \A f \in ListFields :
         /\ HasKey(_source, f)
         /\ IsStr(last.args[f]) => _source.map[f] = List(<<last.args[f]>>)
         /\ ~IsStr(last.args[f]) => _source.map[f] = last.args[f]
  /\ [][(last'.op = "source" /\ last'.err = "none") \/ _source' = _source]_vars

\* an instance was constructed with a single text for author, tags and misc
C7_Witness ==
  /\ last.op = "__init__"
  /\ last.err = "none"
  /\ \A f \in ListFields : IsStr(last.args[f]) /\ _source.map[f] = List(<<last.args[f]>>)

\* C8: after an analyse that returned normally, overall holds the score and
\* the magnitude of the reply's document sentiment and content holds the
\* entries of the reply's sentences, in their order, and nothing else.
C8_AnalyseStoresLatestReply ==
  (last.op = "analyse" /\ last.err = "none") =>
    LET r == last.calls[1].reply
        overall == _sentiment.map["overall"]
        content == _sentiment.map["content"]
    IN /\ overall.map["score"] = Float(r.document_sentiment.score)
       /\ overall.map["magnitude"] = Float(r.document_sentiment.magnitude)
       /\ content.kind = "list"
       /\ Len(content.items) = Len(r.sentences)
       /\ \A i \in 1..Len(r.sentences) : content.items[i] = SentenceEntry(r.sentences[i])

\* an analyse of an instance analysed before stored the two sentences of
\* its reply
C8_Witness ==
  /\ last.op = "analyse"
  /\ last.err = "none"
  /\ "score" \in last.had
  /\ Len(last.calls[1].reply.sentences) = 2
  /\ Len(_sentiment.map["content"].items) = 2

\* C9: when the client raises in analyse or in classify, the caller gets
\* that error and sentiment is as it was; when classify fails for the
\* missing 'overall' key, sentiment is as it was too, and the client has
\* been called once.
C9_FailureLeavesSentiment ==
  [][/\ (last'.op \in {"analyse", "classify"} /\ Raised(last')) =>
          last'.err = "ClientError" /\ _sentiment' = _sentiment
     /\ (last'.op = "classify" /\ last'.err = "KeyError" /\ HasKey(_source, "body")) =>
          /\ _sentiment' = _sentiment
          /\ Len(last'.calls) = 1
          /\ last'.calls[1].method = "classify_text"]_vars

\* the client raised in the analyse of a classified instance
C9_Witness ==
  /\ last.op = "analyse"
  /\ last.err = "ClientError"
  /\ Raised(last)
  /\ OverallKeys(_sentiment) = {"score", "magnitude", "categories"}

\* C10: after an analyse that returned normally, overall holds score and
\* magnitude and no other key, whatever it held before; after a classify
\* that returned normally, categories has as many entries as the reply has
\* categories (one when it has none), whatever it held before.
C10_AnalyseDropsCategories ==
  /\ (last.op = "analyse" /\ last.err = "none") =>
       DOMAIN _sentiment.map["overall"].map = {"score", "magnitude"}
  /\ (last.op = "classify" /\ last.err = "none") =>
       LET n == Len(last.calls[1].reply.categories)
       IN Len(_sentiment.map["overall"].map["categories"].items) = IF n = 0 THEN 1 ELSE n

\* an analyse of a classified instance left overall without categories
C10_Witness ==
  /\ last.op = "analyse"
  /\ last.err = "none"
  /\ last.had = {"score", "magnitude", "categories"}
  /\ OverallKeys(_sentiment) = {"score", "magnitude"}

====
